---- MODULE Spec2Model ----
(***************************************************************************)
(* A model of the fsa crate (nucleus-labs/fsa): the File / Directory       *)
(* capability traits and their two backends, the physical one              *)
(* (src/src/physical.rs) and the archive one (src/src/zip.rs).             *)
(*                                                                         *)
(* Four specifications share the variables:                               *)
(*   SpecFile  one File node (a PhysicalFile or a ZipFile) driven through  *)
(*             the buffered read / seek / write contract;                  *)
(*   SpecTree  the node graph: directories, their child caches, scans;     *)
(*   SpecConc  two callers filling two ZipFiles of one archive, at the     *)
(*             granularity of the steps of ZipFile::fill_buffer;           *)
(*   SpecLock  two callers' operations as the RwLock acquisitions and      *)
(*             releases they make on the nodes and on the archive.         *)
(*                                                                         *)
(* Conventions.  Option<T> is a sequence of length 0 (None) or 1 (Some).   *)
(* A Vec<u8> is its contents (a sequence, whose Len is Vec::len) and its   *)
(* capacity.  Rust indexes from 0, the sequences here from 1.  A panic     *)
(* (unwrap on None, unimplemented!, todo!, a slice index out of range)     *)
(* is the outcome "Panic"; nothing runs after it.                          *)
(***************************************************************************)
EXTENDS Integers, Sequences, FiniteSets, TLC

VARIABLES
    f,          \* SpecFile: the File node under test
    disk,       \* SpecFile: backend file at the PhysicalFile's path (Option of bytes)
    archive,    \* the entries of the ZipArchive (zip backend)
    last,       \* the last call made by a caller and what it returned
    rt,         \* observer: progress of a write/flush/close/open/read round trip
    sk,         \* observer: bytes read since the last seek(Start(k))
    faults,     \* number of backend calls that have failed with an I/O error
    nodes,      \* SpecTree: the nodes, a node's identity being its index
    fsys,       \* SpecTree: the operating system's tree, path -> "dir" / "file" / "zip"
    listings,   \* SpecTree: per directory node, the backend listings made for it
    threads,    \* SpecConc: per caller, its ZipFile, its position in read, its bytes
    lock,       \* SpecConc: the caller holding the archive's write lock, or 0
    reader,     \* SpecConc: the archive's one reader: the entry opened, the position
    locks       \* SpecLock: the RwLock policy, and per caller the guards it holds

vars == <<f, disk, archive, last, rt, sk, faults, nodes, fsys, listings,
          threads, lock, reader, locks>>

(***************************************************************************)
(* Bounds of the model.                                                    *)
(***************************************************************************)
MaxLen == 2         \* longest backend file / archive entry, in bytes
MaxBuf == 2         \* largest buffer size a caller asks for
MaxRead == 2        \* longest slice a caller passes to read / write
MaxFaults == 1      \* backend I/O errors injected in one behaviour
MaxNodes == 4       \* nodes constructed in one behaviour
MaxList == 2        \* backend listings made for one directory in one behaviour

(***************************************************************************)
(* Helpers.                                                                *)
(***************************************************************************)
Min(a, b) == IF a <= b THEN a ELSE b
Max(a, b) == IF a >= b THEN a ELSE b

None == <<>>
Some(x) == <<x>>
IsSome(o) == o # <<>>
Unwrap(o) == o[1]

\* Backend contents: byte i of a file of length n is i (all bytes distinct).
Pattern(n) == [i \in 1..n |-> i]
\* What a caller writes: bytes 11, 12, ...
Payload(n) == [i \in 1..n |-> 10 + i]
\* n zero bytes
Zeros(n) == [i \in 1..n |-> 0]

\* The outcome of a call: the node afterwards, Ok / Err / Panic, the value
\* returned and the bytes handed to the caller.
Outcome(node, tag, val, data) == [f |-> node, tag |-> tag, val |-> val, data |-> data]

Halted == last.tag \in {"Panic", "Deadlock"}

(***************************************************************************)
(* Vec<u8>                                                                 *)
(***************************************************************************)
\* Vec::resize(n, 0): truncates or extends with zeros; the capacity never
\* shrinks and grows to max(n, 2 * cap, 8) when n exceeds it.
VecResize(buffer, n) ==
    IF n <= Len(buffer) THEN SubSeq(buffer, 1, n)
    ELSE buffer \o Zeros(n - Len(buffer))

VecCapacity(cap, n) ==
    IF n <= cap THEN cap ELSE Max(n, Max(2 * cap, 8))

\* slice[..Len(bytes)].copy_from_slice(bytes)
CopyInto(buffer, bytes) ==
    [i \in 1..Len(buffer) |-> IF i <= Len(bytes) THEN bytes[i] ELSE buffer[i]]

(***************************************************************************)
(* The operating system's file, as File::open hands it out: a read-only    *)
(* handle with a position.                                                 *)
(***************************************************************************)
\* std::io::SeekFrom
SeekFrom(whence, n) == [whence |-> whence, n |-> n]

SeekTarget(pos, cur, end) ==
    CASE pos.whence = "Start" -> pos.n
      [] pos.whence = "End" -> end + pos.n
      [] pos.whence = "Current" -> cur + pos.n

(***************************************************************************)
(* PhysicalFile                                                            *)
(***************************************************************************)
PhysicalFile_new(name, parent, buffer_size) ==
    [kind |-> "PhysicalFile", name |-> name, parent |-> parent, file |-> None,
     buffer |-> <<>>, cap |-> buffer_size,
     buf_filled |-> 0, cursor |-> 0,
     file_index |-> 0, seek_offset |-> 0]

\* An open fs::File: its position and the bytes of the file it was opened
\* on.  It keeps reading that file when the path is unlinked or renamed.
Handle(pos, data) == [pos |-> pos, data |-> data]

\* is_open: a handle is held (and its metadata() answers)
PhysicalFile_is_open(node) == IsSome(node.file)

PhysicalFile_close(node) ==
    [node EXCEPT !.file = None, !.buf_filled = 0, !.cursor = 0]

\* open: closes a stale handle, then File::open (read-only) at the full path.
PhysicalFile_open(node, d) ==
    LET n1 == IF IsSome(node.file) THEN PhysicalFile_close(node) ELSE node
    IN  IF IsSome(d)
        THEN Outcome([n1 EXCEPT !.file = Some(Handle(0, Unwrap(d)))], "Ok", 0, <<>>)
        ELSE Outcome(n1, "Err", <<"IoError", "NotFound">>, <<>>)

PhysicalFile_take_handle(node) ==
    Outcome([node EXCEPT !.file = None], "Ok", node.file, <<>>)

\* fill_buffer: implicit open (and one-shot sizing of a capacity-0 buffer),
\* then one read of the handle into the buffer.  ioerr: the read fails.
PhysicalFile_fill_buffer(node, d, ioerr) ==
    LET o == PhysicalFile_open(node, d)
        opened == ~PhysicalFile_is_open(node)
        n0 == IF opened THEN o.f ELSE node
        h == Unwrap(n0.file)
        size == Len(h.data)
        n1 == IF opened /\ n0.cap = 0
              THEN [n0 EXCEPT !.buffer = VecResize(@, size),
                              !.cap = VecCapacity(@, size)]
              ELSE n0
        n2 == [n1 EXCEPT !.cursor = 0]
        cnt == Min(Len(n2.buffer), Max(0, size - h.pos))
        bytes == SubSeq(h.data, h.pos + 1, h.pos + cnt)
    IN  IF opened /\ o.tag = "Err" THEN o
        ELSE IF ioerr
             THEN Outcome(n2, "Err", <<"IoError", "Other">>, <<>>)
             ELSE Outcome([n2 EXCEPT !.buf_filled = cnt,
                                     !.buffer = CopyInto(@, bytes),
                                     !.file = Some(Handle(h.pos + cnt, h.data))],
                          "Ok", cnt, <<>>)

\* The part of read shared by both backends, after the fill:
\* copy buffer[cursor..end] out, a slice index that panics past the length.
ServeRead(node, len) ==
    LET byte_count == Min(node.buf_filled - node.cursor, len)
        end == node.cursor + byte_count
    IN  IF end > Len(node.buffer)
        THEN Outcome(node, "Panic", "slice index", <<>>)
        ELSE Outcome([node EXCEPT !.cursor = end], "Ok", byte_count,
                     SubSeq(node.buffer, node.cursor + 1, end))

\* The part of fill_buf after the fill: &buffer[cursor..buf_filled].
ServeFillBuf(node) ==
    IF node.buf_filled > Len(node.buffer)
    THEN Outcome(node, "Panic", "slice index", <<>>)
    ELSE Outcome(node, "Ok", node.buf_filled - node.cursor,
                 SubSeq(node.buffer, node.cursor + 1, node.buf_filled))

PhysicalFile_read(node, len, d, ioerr) ==
    LET fill == PhysicalFile_fill_buffer(node, d, ioerr)
    IN  IF node.cursor >= node.buf_filled
        THEN IF fill.tag = "Ok" THEN ServeRead(fill.f, len) ELSE fill
        ELSE ServeRead(node, len)

PhysicalFile_fill_buf(node, d, ioerr) ==
    LET fill == PhysicalFile_fill_buffer(node, d, ioerr)
    IN  IF node.cursor >= node.buf_filled
        THEN IF fill.tag = "Ok" THEN ServeFillBuf(fill.f) ELSE fill
        ELSE ServeFillBuf(node)

ConsumeUnclamped(node, amt) ==
    Outcome([node EXCEPT !.cursor = node.cursor + amt], "Ok", 0, <<>>)

\* consume: cursor = min(cursor + amt, buf_filled); the same for both backends.
File_consume(node, amt) ==
    Outcome([node EXCEPT !.cursor = Min(node.cursor + amt, node.buf_filled)],
            "Ok", 0, <<>>)

\* seek: self.file.as_ref().unwrap().seek(pos); the buffer is not touched.
\* End is relative to the length of the file the handle is open on.
PhysicalFile_seek(node, pos) ==
    LET h == Unwrap(node.file)
        target == SeekTarget(pos, h.pos, Len(h.data))
    IN  IF ~IsSome(node.file)
        THEN Outcome(node, "Panic", "unwrap on None", <<>>)
        ELSE IF target < 0
             THEN Outcome(node, "Err", <<"IoError", "InvalidInput">>, <<>>)
             ELSE Outcome([node EXCEPT !.file = Some(Handle(target, h.data))],
                          "Ok", target, <<>>)

WriteWholeInput(node, buf) ==
    Outcome([node EXCEPT !.buf_filled = 0, !.cursor = 0,
                         !.buffer = CopyInto(@, SubSeq(buf, 1, Min(Len(@), Len(buf))))],
            "Ok", Len(buf), <<>>)

\* write: replaces the head of the buffer, up to the buffer's length.
PhysicalFile_write(node, buf) ==
    LET byte_count == Min(Len(node.buffer), Len(buf))
    IN  Outcome([node EXCEPT !.buf_filled = 0, !.cursor = 0,
                             !.buffer = CopyInto(@, SubSeq(buf, 1, byte_count))],
                "Ok", byte_count, <<>>)

\* flush: open (read-only), then write the whole buffer to the handle.  The
\* handle is not open for writing: the write fails, except that the platform
\* may let a write of zero bytes through (zw: it detects the error anyway).
PhysicalFile_flush(node, d, zw) ==
    LET o == PhysicalFile_open(node, d)
    IN  IF o.tag = "Err" THEN o
        ELSE IF Len(o.f.buffer) > 0 \/ zw
             THEN Outcome(o.f, "Err", <<"IoError", "BadF">>, <<>>)
             ELSE Outcome(o.f, "Ok", 0, <<>>)

\* size: todo!()
PhysicalFile_size(node) == Outcome(node, "Panic", "todo", <<>>)

\* set_buffer_size: buffer.resize(size, 0); the same for both backends.
File_set_buffer_size(node, size) ==
    Outcome([node EXCEPT !.buffer = VecResize(@, size),
                         !.cap = VecCapacity(@, size)], "Ok", 0, <<>>)

(***************************************************************************)
(* The archive (the zip crate's ZipArchive over one fs::File).  An entry   *)
(* has a name, its decompressed bytes, whether it is stored uncompressed,  *)
(* and whether it is a directory entry (a name with a trailing separator). *)
(***************************************************************************)
Entry(name, data, stored, dir) ==
    [name |-> name, data |-> data, stored |-> stored, dir |-> dir]

\* ZipArchive::index_for_name
IndexForName(arch, name) ==
    IF \E i \in 1..Len(arch) : arch[i].name = name
    THEN Some(CHOOSE i \in 1..Len(arch) : arch[i].name = name)
    ELSE None

\* What a seekable entry reader positioned by seek_relative(offset) from the
\* entry's start yields to one read into a slice of length len: the position
\* is clamped to the entry's length.
EntryRead(data, offset, len) ==
    LET pos == Min(Len(data), offset)
        cnt == Min(len, Len(data) - pos)
    IN  SubSeq(data, pos + 1, pos + cnt)

(***************************************************************************)
(* ZipFile                                                                 *)
(***************************************************************************)
ZipBufferSize == 512

\* new: the entry's index is looked up by name (and unwrapped).
ZipFile_new(name, parent, buffer_size, arch) ==
    [kind |-> "ZipFile", name |-> name, parent |-> parent, file |-> None,
     buffer |-> <<>>, cap |-> buffer_size,
     buf_filled |-> 0, cursor |-> 0,
     file_index |-> Unwrap(IndexForName(arch, name)), seek_offset |-> 0]

\* fill_buffer: re-open the entry by index (by_index_seek is refused for a
\* compressed entry, and the result is unwrapped), skip seek_offset bytes
\* (a negative skip is refused), read once into the buffer.
ZipFile_fill_buffer(node, arch, ioerr) ==
    LET entry == arch[node.file_index]
        bytes == EntryRead(entry.data, node.seek_offset, Len(node.buffer))
    IN  IF ~entry.stored
        THEN Outcome(node, "Panic", "unwrap on Err", <<>>)
        ELSE IF node.seek_offset < 0
             THEN Outcome(node, "Err", <<"IoError", "InvalidInput">>, <<>>)
             ELSE IF ioerr
                  THEN Outcome(node, "Err", <<"IoError", "Other">>, <<>>)
                  ELSE Outcome([node EXCEPT !.buf_filled = Len(bytes),
                                            !.buffer = CopyInto(@, bytes),
                                            !.seek_offset = @ + Len(bytes),
                                            !.cursor = 0],
                               "Ok", 0, <<>>)

ZipFile_read(node, len, arch, ioerr) ==
    LET fill == ZipFile_fill_buffer(node, arch, ioerr)
    IN  IF node.cursor >= node.buf_filled
        THEN IF fill.tag = "Ok" THEN ServeRead(fill.f, len) ELSE fill
        ELSE ServeRead(node, len)

ZipFile_fill_buf(node, arch, ioerr) ==
    LET fill == ZipFile_fill_buffer(node, arch, ioerr)
    IN  IF node.cursor >= node.buf_filled
        THEN IF fill.tag = "Ok" THEN ServeFillBuf(fill.f) ELSE fill
        ELSE ServeFillBuf(node)

ZipSeekUnchecked(node, pos, arch) ==
    LET target == SeekTarget(pos, node.seek_offset, Len(arch[node.file_index].data))
    IN  Outcome([node EXCEPT !.buf_filled = 0, !.cursor = 0, !.seek_offset = target],
                "Ok", target, <<>>)

\* seek: only moves seek_offset and empties the buffer window; the new
\* offset is stored before it is checked.
ZipFile_seek(node, pos, arch) ==
    LET size == Len(arch[node.file_index].data)
        target == SeekTarget(pos, node.seek_offset, size)
        n1 == [node EXCEPT !.buf_filled = 0, !.cursor = 0, !.seek_offset = target]
    IN  IF target < 0
        THEN Outcome(n1, "Err", <<"IoError", "InvalidInput">>, <<>>)
        ELSE Outcome(n1, "Ok", target, <<>>)

\* write, flush: unimplemented!()
ZipFile_write(node, buf) == Outcome(node, "Panic", "unimplemented", <<>>)

ZipFile_flush(node) == Outcome(node, "Panic", "unimplemented", <<>>)

\* size: the entry's uncompressed size, read under the archive's write lock
ZipFile_size(node, arch) ==
    Outcome(node, "Ok", Len(arch[node.file_index].data), <<>>)

\* open, close: nothing to do
ZipFile_open(node) == Outcome(node, "Ok", 0, <<>>)

ZipFile_close(node) == node

(***************************************************************************)
(* The File trait: dispatch on the backend.                                *)
(***************************************************************************)
File_read(node, len, d, arch, ioerr) ==
    IF node.kind = "PhysicalFile" THEN PhysicalFile_read(node, len, d, ioerr)
    ELSE ZipFile_read(node, len, arch, ioerr)

File_fill_buf(node, d, arch, ioerr) ==
    IF node.kind = "PhysicalFile" THEN PhysicalFile_fill_buf(node, d, ioerr)
    ELSE ZipFile_fill_buf(node, arch, ioerr)

File_seek(node, pos, arch) ==
    IF node.kind = "PhysicalFile" THEN PhysicalFile_seek(node, pos)
    ELSE ZipFile_seek(node, pos, arch)

File_write(node, buf) ==
    IF node.kind = "PhysicalFile" THEN PhysicalFile_write(node, buf)
    ELSE ZipFile_write(node, buf)

File_flush(node, d, zw) ==
    IF node.kind = "PhysicalFile" THEN PhysicalFile_flush(node, d, zw)
    ELSE ZipFile_flush(node)

File_size(node, arch) ==
    IF node.kind = "PhysicalFile" THEN PhysicalFile_size(node)
    ELSE ZipFile_size(node, arch)

File_open(node, d) ==
    IF node.kind = "PhysicalFile" THEN PhysicalFile_open(node, d)
    ELSE ZipFile_open(node)

File_close(node) ==
    Outcome(IF node.kind = "PhysicalFile" THEN PhysicalFile_close(node)
            ELSE ZipFile_close(node), "Ok", 0, <<>>)

(***************************************************************************)
(* Observers of what a caller sees.  They record; they decide nothing.     *)
(***************************************************************************)
Call(op, arg, out) ==
    [op |-> op, arg |-> arg, tag |-> out.tag, val |-> out.val, data |-> out.data]

\* The round trip write(B), flush, close, open, read ... on a fresh node.
RtOff == [phase |-> "off", B |-> <<>>, got |-> <<>>]

RtNext(node, op, arg, out) ==
    CASE rt.phase = "new" /\ op = "write" /\ Len(arg) <= node.cap
            -> [phase |-> "written", B |-> arg, got |-> <<>>]
      [] rt.phase = "written" /\ op = "flush" -> [rt EXCEPT !.phase = "flushed"]
      [] rt.phase = "flushed" /\ op = "close" -> [rt EXCEPT !.phase = "closed"]
      [] rt.phase = "closed" /\ op = "open" -> [rt EXCEPT !.phase = "opened"]
      [] rt.phase \in {"opened", "reading"} /\ op = "read" /\ arg > 0
            -> [rt EXCEPT !.phase = IF out.tag = "Ok" /\ out.val = 0
                                    THEN "done" ELSE "reading",
                          !.got = @ \o out.data]
      [] OTHER -> RtOff

\* The bytes a file hands out by successful reads from position k on: for
\* an archive file the reads that follow a seek(Start(k)); for a physical
\* file built with buffer size 0 the reads since it was built (k = 0), an
\* open() before the first of them included.
SkOff == [k |-> -1, got |-> <<>>]

SkNext(node, op, arg, out) ==
    CASE node.kind = "ZipFile" /\ op = "seek" /\ arg.whence = "Start"
            -> [k |-> arg.n, got |-> <<>>]
      [] op = "read" /\ sk.k >= 0 /\ out.tag = "Ok" -> [sk EXCEPT !.got = @ \o out.data]
      [] node.kind = "PhysicalFile" /\ op = "open" /\ out.tag = "Ok"
            /\ sk.k >= 0 /\ sk.got = <<>> -> sk
      [] OTHER -> SkOff

(***************************************************************************)
(* SpecFile: one File node and its callers.                                *)
(***************************************************************************)
MaxSeek == MaxLen + 1

SeekArgs ==
    {SeekFrom("Start", k) : k \in 0..MaxSeek}
    \cup {SeekFrom(w, d) : w \in {"End", "Current"}, d \in (0 - MaxSeek)..1}

InitFile ==
    /\ \/ /\ \E size \in 0..MaxBuf : f = PhysicalFile_new("f.bin", 0, size)
          /\ disk \in {None} \cup {Some(Pattern(n)) : n \in 0..MaxLen}
          /\ archive = <<>>
          /\ rt = [phase |-> "new", B |-> <<>>, got |-> <<>>]
          /\ sk = IF f.cap = 0 THEN [k |-> 0, got |-> <<>>] ELSE SkOff
       \/ /\ \E n \in 0..MaxLen, stored \in BOOLEAN :
                archive = <<Entry("x.txt", Pattern(n), stored, FALSE)>>
          /\ f = ZipFile_new("x.txt", 0, ZipBufferSize, archive)
          /\ disk = None
          /\ rt = RtOff
          /\ sk = SkOff
    /\ last = [op |-> "new", arg |-> 0, tag |-> "Ok", val |-> 0, data |-> <<>>]
    /\ faults = 0
    /\ nodes = <<>> /\ fsys = <<>> /\ listings = <<>>
    /\ threads = <<>> /\ lock = 0 /\ reader = None /\ locks = <<>>

\* The backend may fail a call (ioerr) while faults remain to be injected.
Faulty == {FALSE} \cup {b \in {TRUE} : faults < MaxFaults}

\* A caller's call op(arg) on the node, with outcome out.
FileCall(op, arg, ioerr, out) ==
    /\ ~Halted
    /\ faults' = IF ioerr THEN faults + 1 ELSE faults
    /\ f' = out.f
    /\ last' = Call(op, arg, out)
    /\ rt' = RtNext(f, op, arg, out)
    /\ sk' = SkNext(f, op, arg, out)
    /\ UNCHANGED <<disk, archive, nodes, fsys, listings, threads, lock, reader, locks>>

Read ==
    \E len \in 0..MaxRead, ioerr \in Faulty :
        FileCall("read", len, ioerr, File_read(f, len, disk, archive, ioerr))

FillBuf ==
    \E ioerr \in Faulty :
        FileCall("fill_buf", 0, ioerr, File_fill_buf(f, disk, archive, ioerr))

Consume ==
    \E amt \in 0..MaxRead : FileCall("consume", amt, FALSE, File_consume(f, amt))

Seek ==
    \E pos \in SeekArgs :
        LET out == File_seek(f, pos, archive)
        IN  /\ out.tag = "Ok" => out.val <= MaxSeek
            /\ out.f.seek_offset >= 0 - MaxSeek
            /\ FileCall("seek", pos, FALSE, out)

Write ==
    \E n \in 0..MaxRead : FileCall("write", Payload(n), FALSE, File_write(f, Payload(n)))

Flush ==
    \E zw \in BOOLEAN : FileCall("flush", 0, FALSE, File_flush(f, disk, zw))

Open == FileCall("open", 0, FALSE, File_open(f, disk))

Close == FileCall("close", 0, FALSE, File_close(f))

SetBufferSize ==
    \E size \in 0..MaxBuf :
        FileCall("set_buffer_size", size, FALSE, File_set_buffer_size(f, size))

TakeHandle ==
    /\ f.kind = "PhysicalFile"
    /\ FileCall("take_handle", 0, FALSE, PhysicalFile_take_handle(f))

Size == FileCall("size", 0, FALSE, File_size(f, archive))

NextFile ==
    \/ Read \/ FillBuf \/ Consume \/ Seek \/ Write \/ Flush
    \/ Open \/ Close \/ SetBufferSize \/ TakeHandle \/ Size

SpecFile == InitFile /\ [][NextFile]_vars

(***************************************************************************)
(* Claims on the File contract.                                            *)
(***************************************************************************)

\* C1: in every reachable state of a PhysicalFile or ZipFile,
\* 0 <= cursor <= buf_filled <= buffer.capacity().
C1_BufferWindow ==
    /\ 0 <= f.cursor
    /\ f.cursor <= f.buf_filled
    /\ f.buf_filled <= f.cap


\* C1 witness: a fill and a read have moved the cursor, and set_buffer_size
\* has then shrunk the buffer below buf_filled (the capacity stays).
C1_Witness ==
    /\ last.op = "set_buffer_size"
    /\ f.cursor > 0
    /\ f.buf_filled > Len(f.buffer)

\* The entry a ZipFile node reads.
EntryData == archive[f.file_index].data

\* C3 (as claimed): on a file created by new_file(name, S), for |B| <= S,
\* write(B), flush, close, open, read-until-end succeed at every step, write
\* accepts all of B, flush persists B, and the bytes read equal B.
C3_RoundTrip ==
    /\ rt.phase = "written" => last.tag = "Ok" /\ last.val = Len(rt.B)
    /\ rt.phase = "flushed" => last.tag = "Ok" /\ disk = Some(rt.B)
    /\ rt.phase \in {"closed", "opened", "reading", "done"} => last.tag = "Ok"
    /\ rt.phase = "done" => rt.got = rt.B

\* C7: on an archive entry of decompressed size L, seek(End(0)) returns L,
\* and seek(Current(-(L+1))) issued at offset L returns the invalid-seek
\* error (it does not panic).
C7_ArchiveSeek ==
    [][(f.kind = "ZipFile" /\ last'.op = "seek") =>
          LET L == Len(EntryData)
          IN  /\ last'.arg = SeekFrom("End", 0) =>
                    last'.tag = "Ok" /\ last'.val = L
              /\ (f.seek_offset = L /\ last'.arg = SeekFrom("Current", 0 - (L + 1))) =>
                    last'.tag = "Err" /\ last'.val = <<"IoError", "InvalidInput">>
      ]_vars

\* C7 witness: seek(Current(-(L+1))) has just failed on a non-empty entry
\* (the offset it left, -1, shows it was issued at offset L).
C7_Witness ==
    /\ f.kind = "ZipFile"
    /\ Len(EntryData) > 0
    /\ last.op = "seek"
    /\ last.arg = SeekFrom("Current", 0 - (Len(EntryData) + 1))
    /\ last.tag = "Err"
    /\ f.seek_offset = -1

\* C8 (as claimed): on an archive file node as its directory hands it out,
\* for k in 0..L, seek(Start(k)) followed by reads until a read returns 0
\* yields bytes k..L of the entry, and every one of those reads succeeds
\* (taken here on an entry stored uncompressed, which the archive can
\* re-open for seeking).
C8_SeekStartThenRead ==
    (/\ f.kind = "ZipFile" /\ archive[f.file_index].stored
     /\ sk.k >= 0 /\ sk.k <= Len(EntryData) /\ last.op = "read") =>
        /\ last.tag = "Ok"
        /\ (last.arg > 0 /\ last.val = 0) =>
              sk.got = SubSeq(EntryData, sk.k + 1, Len(EntryData))


(***************************************************************************)
(* Paths.  A PathBuf is the sequence of the names joined into it; two      *)
(* PathBufs are equal when their components are.                           *)
(***************************************************************************)
RootName == "/tmp/root"

\* Path::is_absolute, on the names of the model
IsAbsolute(name) == name = RootName

\* PathBuf::join: an absolute name replaces the path
Join(path, name) == IF IsAbsolute(name) THEN <<name>> ELSE Append(path, name)

\* to_string_lossy().to_string(): the names with the separator between them
RECURSIVE ToStringLossy(_)
ToStringLossy(path) ==
    IF Len(path) = 0 THEN ""
    ELSE IF Len(path) = 1 THEN path[1]
    ELSE ToStringLossy(SubSeq(path, 1, Len(path) - 1)) \o "/" \o path[Len(path)]

(***************************************************************************)
(* The operating system's tree: fs maps each existing path to "dir",       *)
(* "file", "zip" (a file holding a valid archive) or "link" (a symbolic    *)
(* link to a regular file that is no archive).                             *)
(***************************************************************************)
\* Path::starts_with
IsPrefix(p, q) == Len(p) <= Len(q) /\ SubSeq(q, 1, Len(p)) = p

\* Path::exists
PathExists(fs, path) == path \in DOMAIN fs

\* Path::is_dir, Path::is_file (both follow symbolic links)
PathIsDir(fs, path) == PathExists(fs, path) /\ fs[path] = "dir"

PathIsFile(fs, path) == PathExists(fs, path) /\ fs[path] \in {"file", "zip", "link"}

\* DirEntry::file_type of the entry at a path of type t: the link itself,
\* not what it points to
FileType(t) ==
    CASE t = "dir" -> "dir" [] t \in {"file", "zip"} -> "file" [] OTHER -> "symlink"

\* The entries directly under path, as (name, type)
DirEntries(fs, path) ==
    {[name |-> q[Len(q)], type |-> FileType(fs[q])] :
        q \in {r \in DOMAIN fs : Len(r) = Len(path) + 1 /\ IsPrefix(path, r)}}

\* The sequences that enumerate a set, each element once
Orders(S) ==
    {s \in [1..Cardinality(S) -> S] :
        \A i, j \in 1..Cardinality(S) : i # j => s[i] # s[j]}

\* fs::read_dir(path): the listings it may yield; the file system decides
\* the order of the entries.
ReadDir(fs, path) == Orders(DirEntries(fs, path))

(***************************************************************************)
(* Nodes.  A handle (Arc<RwLock<..>>) is the node's index in the store;    *)
(* parent 0 is None.  children is the HashMap of the directory's cache.    *)
(***************************************************************************)
EmptyMap == <<>>

MapInsert(map, key, val) ==
    [k \in DOMAIN map \cup {key} |-> IF k = key THEN val ELSE map[k]]

MapValues(map) == {map[k] : k \in DOMAIN map}

PhysicalDirectory_new(name, parent) ==
    [kind |-> "PhysicalDirectory", name |-> name, parent |-> parent,
     children |-> EmptyMap, scanned |-> FALSE]

IsDirectory(node) == node.kind \in {"PhysicalDirectory", "ZipDirectory"}

IsFile(node) == node.kind \in {"PhysicalFile", "ZipFile"}

\* get_full_path of each node type, walking the parent handles
RECURSIVE Node_get_full_path(_, _)

PhysicalDirectory_get_full_path(ns, id) ==
    IF ns[id].parent = 0 THEN <<ns[id].name>>
    ELSE Join(Node_get_full_path(ns, ns[id].parent), ns[id].name)

PhysicalFile_get_full_path(ns, id) ==
    Join(Node_get_full_path(ns, ns[id].parent), ns[id].name)

ZipDirectory_get_full_path(ns, id) ==
    Join(Node_get_full_path(ns, ns[id].parent), ns[id].name)

ZipFile_get_full_path(ns, id) ==
    Node_get_full_path(ns, ns[id].parent)

Node_get_full_path(ns, id) ==
    CASE ns[id].kind = "PhysicalDirectory" -> PhysicalDirectory_get_full_path(ns, id)
      [] ns[id].kind = "PhysicalFile" -> PhysicalFile_get_full_path(ns, id)
      [] ns[id].kind = "ZipDirectory" -> ZipDirectory_get_full_path(ns, id)
      [] ns[id].kind = "ZipFile" -> ZipFile_get_full_path(ns, id)

\* exists: the full path exists and is a directory (both directory types)
Directory_exists(ns, id, fs) == PathIsDir(fs, Node_get_full_path(ns, id))

\* The outcome of a call on the tree: the store afterwards, the result, and
\* whether the backend was asked for a listing.
TreeOutcome(ns, tag, val, listed) ==
    [nodes |-> ns, tag |-> tag, val |-> val, listed |-> listed]

\* Appends a node and caches it in directory d under its name.
AddChild(ns, d, node) ==
    LET id == Len(ns) + 1
    IN  Append([ns EXCEPT ![d].children = MapInsert(@, node.name, id)], node)

(***************************************************************************)
(* PhysicalDirectory                                                       *)
(***************************************************************************)
\* The loop of scan over the first k items of the listing.
RECURSIVE ScanItems(_, _, _, _)
ScanItems(ns, d, items, k) ==
    IF k = 0 THEN ns
    ELSE LET before == ScanItems(ns, d, items, k - 1)
             item == items[k]
         IN  IF item.type = "dir"
             THEN AddChild(before, d, PhysicalDirectory_new(item.name, d))
             ELSE IF item.type = "file"
                  THEN AddChild(before, d, PhysicalFile_new(item.name, d, 0))
                  ELSE before

ScanAlways(ns, d, fs, items, fail, k) ==
    IF ~Directory_exists(ns, d, fs) THEN TreeOutcome(ns, "Ok", 0, FALSE)
    ELSE TreeOutcome([ScanItems(ns, d, items, Len(items)) EXCEPT ![d].scanned = TRUE],
                     "Ok", 0, TRUE)

\* scan (the inherent, private one): once, list the directory and cache a
\* node per entry that is a directory or a regular file.  items: the
\* listing read_dir yields; fail: it fails after k items have been cached.
PhysicalDirectory_scan(ns, d, fs, items, fail, k) ==
    IF ns[d].scanned \/ ~Directory_exists(ns, d, fs)
    THEN TreeOutcome(ns, "Ok", 0, FALSE)
    ELSE IF fail
         THEN TreeOutcome(ScanItems(ns, d, items, Min(k, Len(items))),
                          "Err", <<"IoError", "Other">>, TRUE)
         ELSE TreeOutcome([ScanItems(ns, d, items, Len(items))
                              EXCEPT ![d].scanned = TRUE], "Ok", 0, TRUE)

PhysicalDirectory_get_children(ns, d, fs, items, fail, k) ==
    LET sc == PhysicalDirectory_scan(ns, d, fs, items, fail, k)
    IN  IF sc.tag = "Err" THEN sc
        ELSE TreeOutcome(sc.nodes, "Ok", MapValues(sc.nodes[d].children), sc.listed)

GetChildNameOnly(ns, d, name) ==
    IF name \in DOMAIN ns[d].children
    THEN TreeOutcome(ns, "Ok", ns[d].children[name], FALSE)
    ELSE TreeOutcome(ns, "Err", <<"FileNotPresent", ns[d].name, name>>, FALSE)

\* get_child, has_child: answered from the cache alone (both directory types)
Directory_get_child(ns, d, name) ==
    IF name \in DOMAIN ns[d].children
    THEN TreeOutcome(ns, "Ok", ns[d].children[name], FALSE)
    ELSE TreeOutcome(ns, "Err",
            <<"FileNotPresent", ToStringLossy(Node_get_full_path(ns, d)), name>>,
            FALSE)

Directory_has_child(ns, d, name) ==
    TreeOutcome(ns, "Ok", name \in DOMAIN ns[d].children, FALSE)

PhysicalDirectory_new_file(ns, d, name, buffer_size) ==
    TreeOutcome(AddChild(ns, d, PhysicalFile_new(name, d, buffer_size)),
                "Ok", Len(ns) + 1, FALSE)

PhysicalDirectory_new_dir(ns, d, name) ==
    TreeOutcome(AddChild(ns, d, PhysicalDirectory_new(name, d)),
                "Ok", Len(ns) + 1, FALSE)

\* Directory::scan, the trait's default body: unimplemented!()
Directory_scan_default(ns) == TreeOutcome(ns, "Panic", "unimplemented", FALSE)

(***************************************************************************)
(* ZipDirectory                                                            *)
(***************************************************************************)
\* new: takes the handle out of the PhysicalFile, opening the file first
\* when it holds none, and reads the archive from the handle; the node
\* takes the file's name and parent.  The PhysicalFile is left without a
\* handle, also when the archive is refused.  In the tree a handle's data
\* is the type of the path it was opened on (File::open also opens a
\* directory, whose reads then fail).
ZipDirectory_new(ns, file, fs) ==
    LET path == Node_get_full_path(ns, file)
        held == IsSome(ns[file].file)
        fh == IF held THEN Unwrap(ns[file].file) ELSE Handle(0, fs[path])
        taken == [ns EXCEPT ![file].file = None]
        node == [kind |-> "ZipDirectory", name |-> ns[file].name,
                 parent |-> ns[file].parent,
                 children |-> EmptyMap, scanned |-> FALSE]
    IN  IF ~held /\ ~PathExists(fs, path)
        THEN TreeOutcome(ns, "Err", <<"IoError", "NotFound">>, FALSE)
        ELSE IF fh.data = "dir"
             THEN TreeOutcome(taken, "Err", <<"ZipError", "Io">>, FALSE)
             ELSE IF fh.data # "zip"
                  THEN TreeOutcome(taken, "Err", <<"ZipError", "InvalidArchive">>, FALSE)
                  ELSE TreeOutcome(Append(taken, node), "Ok", Len(ns) + 1, FALSE)

\* ZipFile::is_file of an entry: its name has no trailing separator
EntryIsFile(entry) == ~entry.dir

\* The nodes get_children builds while not scanned: one ZipFile per entry
\* name, handed to the caller and not cached.  g is the guard of the
\* directory the caller calls through: under its write guard the first
\* ZipFile::new asks for the directory's read lock, and blocked is what
\* std's RwLock does with that, "Deadlock" or "Panic".
RECURSIVE FreshZipFiles(_, _, _, _)
FreshZipFiles(ns, d, arch, k) ==
    IF k = 0 THEN ns
    ELSE Append(FreshZipFiles(ns, d, arch, k - 1),
                ZipFile_new(arch[k].name, d, ZipBufferSize, arch))

ZipDirectory_get_children(ns, d, arch, g, blocked) ==
    IF ns[d].scanned
    THEN TreeOutcome(ns, "Ok", MapValues(ns[d].children), FALSE)
    ELSE IF g = "w" /\ Len(arch) > 0
         THEN TreeOutcome(ns, blocked, "lock held by the caller", TRUE)
         ELSE TreeOutcome(FreshZipFiles(ns, d, arch, Len(arch)), "Ok",
                          (Len(ns) + 1)..(Len(ns) + Len(arch)), TRUE)

\* scan: taken through the directory's write lock (it needs &mut self) and
\* holding the archive's write lock, it calls ZipFile::new for the first
\* file entry, which asks for read locks on both: blocked is what std's
\* RwLock does with that, "Deadlock" or "Panic".  Without file entries the
\* loop ends and the cache counts as scanned.
ZipDirectory_scan(ns, d, fs, arch, blocked) ==
    IF ns[d].scanned \/ ~Directory_exists(ns, d, fs)
    THEN TreeOutcome(ns, "Ok", 0, FALSE)
    ELSE IF \E i \in 1..Len(arch) : EntryIsFile(arch[i])
         THEN TreeOutcome(ns, blocked, "lock held by the caller", TRUE)
         ELSE TreeOutcome([ns EXCEPT ![d].scanned = TRUE], "Ok", 0, TRUE)

\* new_file, new_dir: unimplemented!()
ZipDirectory_new_file(ns, d, name, buffer_size) ==
    TreeOutcome(ns, "Panic", "unimplemented", FALSE)

ZipDirectory_new_dir(ns, d, name) ==
    TreeOutcome(ns, "Panic", "unimplemented", FALSE)

\* ZipFile::rename: unimplemented!()
ZipFile_rename(ns, id, name) == TreeOutcome(ns, "Panic", "unimplemented", FALSE)

(***************************************************************************)
(* The Directory trait: dispatch on the backend.                           *)
(***************************************************************************)
Directory_get_children(ns, d, fs, arch, items, fail, k, g, blocked) ==
    IF ns[d].kind = "PhysicalDirectory"
    THEN PhysicalDirectory_get_children(ns, d, fs, items, fail, k)
    ELSE ZipDirectory_get_children(ns, d, arch, g, blocked)

Directory_new_file(ns, d, name, buffer_size) ==
    IF ns[d].kind = "PhysicalDirectory"
    THEN PhysicalDirectory_new_file(ns, d, name, buffer_size)
    ELSE ZipDirectory_new_file(ns, d, name, buffer_size)

Directory_new_dir(ns, d, name) ==
    IF ns[d].kind = "PhysicalDirectory"
    THEN PhysicalDirectory_new_dir(ns, d, name)
    ELSE ZipDirectory_new_dir(ns, d, name)

\* PhysicalDirectory does not override scan; ZipDirectory does.
Directory_scan(ns, d, fs, arch, blocked) ==
    IF ns[d].kind = "PhysicalDirectory"
    THEN Directory_scan_default(ns)
    ELSE ZipDirectory_scan(ns, d, fs, arch, blocked)

(***************************************************************************)
(* PhysicalFile::rename, on the operating system's tree.                   *)
(***************************************************************************)

\* fs::rename(src, dst)
FsRename(fs, src, dst) ==
    LET under == {q \in DOMAIN fs : IsPrefix(src, q)}
        Moved(q) == dst \o SubSeq(q, Len(src) + 1, Len(q))
        kept == {q \in DOMAIN fs : ~IsPrefix(src, q) /\ q # dst}
        moved == [q \in kept \cup {Moved(r) : r \in under} |->
                    IF q \in kept THEN fs[q]
                    ELSE fs[CHOOSE r \in under : Moved(r) = q]]
    IN  IF ~PathExists(fs, src)
        THEN [fs |-> fs, tag |-> "Err", val |-> <<"IoError", "NotFound">>]
        ELSE IF src = dst THEN [fs |-> fs, tag |-> "Ok", val |-> 0]
        ELSE IF PathIsDir(fs, src) /\ PathIsFile(fs, dst)
             THEN [fs |-> fs, tag |-> "Err", val |-> <<"IoError", "NotADirectory">>]
        ELSE IF PathIsDir(fs, src) /\ \E q \in DOMAIN fs : IsPrefix(dst, q) /\ q # dst
             THEN [fs |-> fs, tag |-> "Err", val |-> <<"IoError", "DirectoryNotEmpty">>]
        ELSE IF PathIsFile(fs, src) /\ PathIsDir(fs, dst)
             THEN [fs |-> fs, tag |-> "Err", val |-> <<"IoError", "IsADirectory">>]
        ELSE [fs |-> moved, tag |-> "Ok", val |-> 0]

\* rename: the backend file moves within the parent directory; the node
\* (and the key it is cached under) is left as it was.
PhysicalFile_rename(ns, id, name, fs) ==
    LET parent_dir == Node_get_full_path(ns, ns[id].parent)
    IN  FsRename(fs, Join(parent_dir, ns[id].name), Join(parent_dir, name))

\* PhysicalFile::exists: the full path exists and is a file
PhysicalFile_exists(ns, id, fs) ==
    LET path == Node_get_full_path(ns, id)
    IN  PathExists(fs, path) /\ PathIsFile(fs, path)

File_rename(ns, id, name, fs) ==
    IF ns[id].kind = "PhysicalFile" THEN PhysicalFile_rename(ns, id, name, fs)
    ELSE [fs |-> fs, tag |-> ZipFile_rename(ns, id, name).tag,
          val |-> ZipFile_rename(ns, id, name).val]

(***************************************************************************)
(* SpecTree: a root PhysicalDirectory and what callers build from it.      *)
(***************************************************************************)
Root == <<RootName>>

\* The trees the root directory may be found in.
FullTree ==
    (Root :> "dir")
    @@ (Append(Root, "a.txt") :> "link")
    @@ (Append(Root, "arch.zip") :> "zip") @@ (Append(Root, "sub") :> "dir")
    @@ (Append(Append(Root, "sub"), "b.txt") :> "file")

InitialTrees ==
    {<<>>, (Root :> "dir"), FullTree}

\* The archives arch.zip may hold: with file entries, or directories only.
InitialArchives ==
    {<<Entry("x.txt", Pattern(1), TRUE, FALSE)>>,
     <<Entry("d/", <<>>, TRUE, TRUE)>>}

LookupNames == {"arch.zip", "x.txt", "missing.txt"}

NewNames == {"arch.zip", "n.txt"}

Dirs == {d \in 1..Len(nodes) : IsDirectory(nodes[d])}

Files == {i \in 1..Len(nodes) : IsFile(nodes[i])}

InitTree ==
    /\ nodes = <<PhysicalDirectory_new(RootName, 0)>>
    /\ fsys \in InitialTrees
    /\ archive \in InitialArchives
    /\ listings = [d \in 1..MaxNodes |-> 0]
    /\ last = [op |-> "new", arg |-> <<1>>, tag |-> "Ok", val |-> 1, data |-> <<>>]
    /\ faults = 0
    /\ f = PhysicalFile_new("f.bin", 0, 0) /\ disk = None /\ rt = RtOff /\ sk = SkOff
    /\ threads = <<>> /\ lock = 0 /\ reader = None /\ locks = <<>>

\* A caller's call op(arg) on node n, with outcome out.  The call record
\* keeps, for a directory, the scanned flag the call found.
TreeCall(op, n, arg, fail, out) ==
    /\ ~Halted
    /\ Len(out.nodes) <= MaxNodes
    /\ out.listed => listings[n] < MaxList
    /\ fail => out.tag = "Err"
    /\ nodes' = out.nodes
    /\ listings' = IF out.listed THEN [listings EXCEPT ![n] = @ + 1] ELSE listings
    /\ faults' = IF fail THEN faults + 1 ELSE faults
    /\ last' = [op |-> op, arg |-> <<n>> \o arg, tag |-> out.tag, val |-> out.val,
                data |-> IF IsDirectory(nodes[n]) THEN <<nodes[n].scanned>> ELSE <<>>]
    /\ UNCHANGED <<f, disk, archive, rt, sk, threads, lock, reader, locks>>

GetChildren ==
    \E d \in Dirs, fail \in Faulty, g \in {"r", "w"}, blocked \in {"Deadlock", "Panic"} :
      \E items \in ReadDir(fsys, Node_get_full_path(nodes, d)) : \E k \in 0..Len(items) :
        /\ ~fail => k = 0
        /\ TreeCall("get_children", d, <<>>, fail,
                    Directory_get_children(nodes, d, fsys, archive, items, fail, k,
                                           g, blocked))
        /\ UNCHANGED fsys

GetChild ==
    \E d \in Dirs, name \in LookupNames :
        /\ TreeCall("get_child", d, <<name>>, FALSE, Directory_get_child(nodes, d, name))
        /\ UNCHANGED fsys

HasChild ==
    \E d \in Dirs, name \in LookupNames :
        /\ TreeCall("has_child", d, <<name>>, FALSE, Directory_has_child(nodes, d, name))
        /\ UNCHANGED fsys

NewFile ==
    \E d \in Dirs, name \in NewNames, size \in {MaxBuf} :
        /\ TreeCall("new_file", d, <<name, size>>, FALSE,
                    Directory_new_file(nodes, d, name, size))
        /\ UNCHANGED fsys

NewDir ==
    \E d \in Dirs :
        /\ TreeCall("new_dir", d, <<"sub">>, FALSE, Directory_new_dir(nodes, d, "sub"))
        /\ UNCHANGED fsys

Scan ==
    \E d \in Dirs, blocked \in {"Deadlock", "Panic"} :
        /\ TreeCall("scan", d, <<>>, FALSE, Directory_scan(nodes, d, fsys, archive, blocked))
        /\ UNCHANGED fsys

\* open() on a PhysicalFile of the tree: the handle is on whatever is at
\* the node's full path.
OpenFile ==
    \E file \in Files :
        LET path == Node_get_full_path(nodes, file)
            d == IF PathExists(fsys, path) THEN Some(fsys[path]) ELSE None
            out == PhysicalFile_open(nodes[file], d)
        IN  /\ nodes[file].kind = "PhysicalFile"
            /\ TreeCall("open", file, <<>>, FALSE,
                        TreeOutcome([nodes EXCEPT ![file] = out.f], out.tag, out.val, FALSE))
            /\ UNCHANGED fsys

ZipDirectoryNew ==
    \E file \in Files :
        /\ nodes[file].kind = "PhysicalFile"
        /\ TreeCall("ZipDirectory::new", file, <<>>, FALSE,
                    ZipDirectory_new(nodes, file, fsys))
        /\ UNCHANGED fsys

Rename ==
    \E file \in Files :
        LET name == "n.txt"
            out == File_rename(nodes, file, name, fsys)
        IN  /\ TreeCall("rename", file, <<name>>, FALSE,
                        TreeOutcome(nodes, out.tag, out.val, FALSE))
            /\ fsys' = out.fs

\* Outside the program: the archive file is replaced by a directory.
EnvReplaceByDir ==
    \E d \in Dirs :
        LET path == Node_get_full_path(nodes, d)
        IN  /\ ~Halted
            /\ nodes[d].kind = "ZipDirectory"
            /\ PathIsFile(fsys, path)
            /\ fsys' = [fsys EXCEPT ![path] = "dir"]
            /\ UNCHANGED <<f, disk, archive, last, rt, sk, faults, nodes, listings,
                           threads, lock, reader, locks>>

NextTree ==
    \/ GetChildren \/ GetChild \/ HasChild \/ NewFile \/ NewDir \/ Scan
    \/ ZipDirectoryNew \/ Rename \/ EnvReplaceByDir \/ OpenFile

SpecTree == InitTree /\ [][NextTree]_vars

(***************************************************************************)
(* SpecConc: two callers, each reading its own ZipFile of one archive.     *)
(* ZipFile::read and fill_buffer are taken one statement at a time; the    *)
(* archive's reader (one fs::File under the ZipArchive) is shared, and a   *)
(* fill re-opens its entry on it, skips, and reads.                        *)
(***************************************************************************)
Callers == {1, 2}

\* RwLock::write on the archive returns once no caller holds the lock.
ArchiveLockFree(l) == l = 0

Thread(node) == [pc |-> "idle", node |-> node, want |-> 0, got |-> <<>>]

InitConc ==
    /\ \E na \in 1..MaxLen, nb \in 1..MaxLen :
          archive = <<Entry("a.txt", Pattern(na), TRUE, FALSE),
                      Entry("b.txt", Payload(nb), TRUE, FALSE)>>
    /\ threads = <<Thread(ZipFile_new("a.txt", 0, ZipBufferSize, archive)),
                   Thread(ZipFile_new("b.txt", 0, ZipBufferSize, archive))>>
    /\ lock = 0
    /\ reader = None
    /\ last = [op |-> "new", arg |-> 0, tag |-> "Ok", val |-> 0, data |-> <<>>]
    /\ f = PhysicalFile_new("f.bin", 0, 0) /\ disk = None /\ rt = RtOff /\ sk = SkOff
    /\ faults = 0
    /\ nodes = <<>> /\ fsys = <<>> /\ listings = <<>> /\ locks = <<>>

ConcFrame ==
    UNCHANGED <<f, disk, archive, last, rt, sk, faults, nodes, fsys, listings, locks>>

\* set_buffer_size, by a caller that has not read yet
ConcSetBufferSize(t) ==
    \E size \in 1..MaxBuf :
        /\ threads[t].pc = "idle"
        /\ Len(threads[t].node.buffer) = 0
        /\ threads' = [threads EXCEPT ![t].node = File_set_buffer_size(@, size).f]
        /\ UNCHANGED <<lock, reader>> /\ ConcFrame

\* read(buf) is entered: the buffer is served, or has to be filled first
ConcRead(t) ==
    \E len \in 1..MaxRead :
        /\ threads[t].pc = "idle"
        /\ threads' = [threads EXCEPT
              ![t].want = len,
              ![t].pc = IF threads[t].node.cursor >= threads[t].node.buf_filled
                        THEN "lock" ELSE "serve"]
        /\ UNCHANGED <<lock, reader>> /\ ConcFrame

\* fill_buffer: archive.write()
ConcLock(t) ==
    /\ threads[t].pc = "lock"
    /\ ArchiveLockFree(lock)
    /\ lock' = t
    /\ threads' = [threads EXCEPT ![t].pc = "reopen"]
    /\ UNCHANGED reader /\ ConcFrame

\* fill_buffer: by_index_seek(file_index) puts the reader at the entry's start
ConcReopen(t) ==
    /\ threads[t].pc = "reopen"
    /\ reader' = Some([entry |-> threads[t].node.file_index, pos |-> 0])
    /\ threads' = [threads EXCEPT ![t].pc = "skip"]
    /\ UNCHANGED lock /\ ConcFrame

\* fill_buffer: seek_relative(seek_offset) moves the reader within the entry
ConcSkip(t) ==
    LET r == Unwrap(reader)
        size == Len(archive[r.entry].data)
    IN  /\ threads[t].pc = "skip"
        /\ reader' = Some([r EXCEPT !.pos = Min(size, r.pos + threads[t].node.seek_offset)])
        /\ threads' = [threads EXCEPT ![t].pc = "fill"]
        /\ UNCHANGED lock /\ ConcFrame

\* fill_buffer: one read from the reader into the buffer, then the offset
\* and the cursor
ConcFill(t) ==
    LET r == Unwrap(reader)
        node == threads[t].node
        bytes == EntryRead(archive[r.entry].data, r.pos, Len(node.buffer))
    IN  /\ threads[t].pc = "fill"
        /\ reader' = Some([r EXCEPT !.pos = @ + Len(bytes)])
        /\ threads' = [threads EXCEPT
              ![t].node = [node EXCEPT !.buf_filled = Len(bytes),
                                       !.buffer = CopyInto(@, bytes),
                                       !.seek_offset = @ + Len(bytes),
                                       !.cursor = 0],
              ![t].pc = "unlock"]
        /\ UNCHANGED lock /\ ConcFrame

\* fill_buffer returns: the write guard is dropped
ConcUnlock(t) ==
    /\ threads[t].pc = "unlock"
    /\ lock' = IF lock = t THEN 0 ELSE lock
    /\ threads' = [threads EXCEPT ![t].pc = "serve"]
    /\ UNCHANGED reader /\ ConcFrame

\* read: the copy out of the buffer; a count of 0 is the end of the entry
ConcServe(t) ==
    LET out == ServeRead(threads[t].node, threads[t].want)
    IN  /\ threads[t].pc = "serve"
        /\ threads' = [threads EXCEPT
              ![t].node = out.f,
              ![t].got = @ \o out.data,
              ![t].pc = IF out.tag = "Panic" THEN "panic"
                        ELSE IF out.val = 0 THEN "eof" ELSE "idle"]
        /\ UNCHANGED <<lock, reader>> /\ ConcFrame

NextConc ==
    \E t \in Callers :
        \/ ConcSetBufferSize(t) \/ ConcRead(t) \/ ConcLock(t) \/ ConcReopen(t)
        \/ ConcSkip(t) \/ ConcFill(t) \/ ConcUnlock(t) \/ ConcServe(t)

SpecConc == InitConc /\ [][NextConc]_vars

\* C9: under every interleaving, each caller receives exactly its own
\* entry's bytes in order: what it has received is a prefix of its entry,
\* and at the end of its reading it has received the whole entry.
C9_OwnEntryBytes ==
    \A t \in Callers :
        LET data == archive[threads[t].node.file_index].data
        IN  /\ IsPrefix(threads[t].got, data)
            /\ threads[t].pc = "eof" => threads[t].got = data

(***************************************************************************)
(* Claims on the tree.                                                     *)
(***************************************************************************)
\* C2: for every node of either backend, get_full_path is the parent's
\* full path joined with the node's own name, and a root's own name.
C2_FullPath ==
    \A id \in 1..Len(nodes) :
        Node_get_full_path(nodes, id) =
            IF nodes[id].parent = 0 THEN <<nodes[id].name>>
            ELSE Join(Node_get_full_path(nodes, nodes[id].parent), nodes[id].name)

\* The names from the root down to node id, with the separator between.
RECURSIVE ChainString(_, _)
ChainString(ns, id) ==
    IF ns[id].parent = 0 THEN ns[id].name
    ELSE ChainString(ns, ns[id].parent) \o "/" \o ns[id].name

\* C4: get_child(n) on a directory D whose cache has no entry n returns the
\* error FileNotPresent carrying (D's full path as a string, n), does not
\* abort, and leaves every node (D's cache and scanned flag) as it was.
C4_GetChildMiss ==
    [][\A d \in Dirs, n \in LookupNames :
          (last'.op = "get_child" /\ last'.arg = <<d, n>>
              /\ n \notin DOMAIN nodes[d].children)
          => /\ last'.tag = "Err"
             /\ last'.val = <<"FileNotPresent", ChainString(nodes, d), n>>
             /\ nodes' = nodes]_vars

C4_Witness ==
    /\ last.op = "get_child" /\ last.tag = "Err"
    /\ last.arg[2] = "missing.txt"
    /\ nodes[last.arg[1]].kind = "ZipDirectory"

\* C5 as stated: over any sequence of scan/get_children calls, failed and
\* retried ones included, the backend listing is made at most once for a
\* directory.
C5_ListedAtMostOnce == \A d \in 1..MaxNodes : listings[d] <= 1

\* C5 amended: once a directory's scanned flag is set, a further scan or
\* get_children call makes no backend listing and leaves its cache
\* identical (the same names mapped to the same node identities) and the
\* flag set.
C5_ScannedIsFinal ==
    [][\A d \in Dirs :
          (nodes[d].scanned /\ last'.op \in {"scan", "get_children"}
              /\ last'.arg = <<d>>)
          => /\ listings'[d] = listings[d]
             /\ nodes'[d].children = nodes[d].children
             /\ nodes'[d].scanned]_vars

C5_Witness ==
    /\ last.op = "get_children" /\ last.tag = "Ok"
    /\ last.data = <<TRUE>>
    /\ nodes[last.arg[1]].children # EmptyMap
    /\ listings[last.arg[1]] = 1

\* Whether directory d's backend holds an entry named n.
BackendHas(d, n) ==
    IF nodes[d].kind = "PhysicalDirectory"
    THEN PathExists(fsys, Join(Node_get_full_path(nodes, d), n))
    ELSE IsSome(IndexForName(archive, n))

\* C6: on a directory that has not been scanned and whose backend holds an
\* entry named n, get_child(n) returns the child and has_child(n) is true.
C6_LookupScans ==
    \A d \in Dirs, n \in LookupNames :
        (last.arg = <<d, n>> /\ last.data = <<FALSE>> /\ BackendHas(d, n))
        => /\ last.op = "get_child" => last.tag = "Ok"
           /\ last.op = "has_child" => last.val = TRUE

\* C10: the operations the archive backend does not support, and the
\* default Directory::scan, return an error to the caller.
C10_UnsupportedIsError ==
    \A n \in 1..Len(nodes) :
        (/\ last.arg # <<>> /\ last.arg[1] = n
         /\ \/ nodes[n].kind = "ZipFile" /\ last.op \in {"write", "flush", "rename"}
            \/ nodes[n].kind = "ZipDirectory" /\ last.op \in {"new_file", "new_dir"}
            \/ nodes[n].kind = "PhysicalDirectory" /\ last.op = "scan")
        => last.tag = "Err"

(***************************************************************************)
(* SpecLock: the locks.  Every node sits in an Arc<RwLock<..>>, and so     *)
(* does the archive.  A caller takes the guard of the node it calls (read  *)
(* or write for a &self method, write for a &mut self one); the operation  *)
(* takes further guards itself.  The nodes are a root PhysicalDirectory,   *)
(* a PhysicalFile in it, the ZipDirectory built from that file, a ZipFile  *)
(* of it, and the ZipDirectory's archive.                                  *)
(***************************************************************************)
LockNodes == {"root", "file", "zipdir", "entry"}

\* The nodes an operation creates: a constructor locks the node it has
\* just built, which only the constructing caller can reach.
NewNodes == {"new_file", "new_dir", "new_entry", "new_zipdir"}

LockParent ==
    [n \in LockNodes \cup NewNodes |->
        CASE n = "root" -> "none" [] n = "file" -> "root"
          [] n = "zipdir" -> "root" [] n = "entry" -> "zipdir"
          [] n = "new_file" -> "root" [] n = "new_dir" -> "root"
          [] n = "new_entry" -> "zipdir" [] n = "new_zipdir" -> "root"]

\* a is the lock of a proper ancestor of node b, or the archive's lock
RECURSIVE Above(_, _)
Above(a, b) ==
    IF b = "archive" \/ b = "none" THEN FALSE
    ELSE IF a = "archive" THEN b \in {"zipdir", "entry", "new_entry"}
    ELSE LockParent[b] = a \/ Above(a, LockParent[b])

Acq(l, m) == [k |-> "acq", l |-> l, m |-> m]
Rel(l, m) == [k |-> "rel", l |-> l, m |-> m]
Mut(l) == [k |-> "mut", l |-> l, m |-> "w"]

\* get_full_path of node n: parent.read().unwrap().get_full_path(), the
\* guard being a temporary of that expression
RECURSIVE PathLocks(_)
PathLocks(n) ==
    IF LockParent[n] = "none" THEN <<>>
    ELSE <<Acq(LockParent[n], "r")>> \o PathLocks(LockParent[n])
         \o <<Rel(LockParent[n], "r")>>

\* A caller's call on node n through a guard of mode g
Called(n, g, body) == <<Acq(n, g)>> \o body \o <<Rel(n, g)>>

\* PhysicalDirectory::new, PhysicalFile::new, ZipFile::new end with
\* arc.write().unwrap().handle.set(..) on the node n they have built
ConstructorLocks(n) == <<Acq(n, "w"), Mut(n), Rel(n, "w")>>

\* ZipFile::new: parent.read() for get_archive, then archive.read() held
\* to the end of the function, over the new node's own lock
ZipFileNewLocks ==
    <<Acq("zipdir", "r"), Rel("zipdir", "r"), Acq("archive", "r")>>
    \o ConstructorLocks("new_entry") \o <<Rel("archive", "r")>>

\* PhysicalDirectory::get_children: scan tests exists(), lists
\* get_full_path() and fills the cache, all through &self, with a node
\* built for a subdirectory and one for a file
Locks_PhysicalDirectory_get_children(g) ==
    Called("root", g,
           PathLocks("root") \o PathLocks("root")
           \o ConstructorLocks("new_dir") \o <<Mut("root")>>
           \o ConstructorLocks("new_file") \o <<Mut("root")>>)

\* PhysicalDirectory::new_file (&mut self): PhysicalFile::new, then the
\* insertion into the cache
Locks_PhysicalDirectory_new_file ==
    Called("root", "w", ConstructorLocks("new_file") \o <<Mut("root")>>)

\* PhysicalDirectory::new_dir (&mut self): PhysicalDirectory::new, then
\* the insertion into the cache
Locks_PhysicalDirectory_new_dir ==
    Called("root", "w", ConstructorLocks("new_dir") \o <<Mut("root")>>)

\* PhysicalFile::open (&mut self): get_full_path, then the handle is stored
Locks_PhysicalFile_open == Called("file", "w", PathLocks("file") \o <<Mut("file")>>)

\* ZipDirectory::get_children while not scanned: archive.read() held over
\* the ZipFile::new of the entry
Locks_ZipDirectory_get_children(g) ==
    Called("zipdir", g, <<Acq("archive", "r")>> \o ZipFileNewLocks \o <<Rel("archive", "r")>>)

\* ZipDirectory::scan (&mut self): exists() walks the path; when it holds,
\* archive.write() is held over ZipFile::new and the insertion
Locks_ZipDirectory_scan(exists) ==
    Called("zipdir", "w",
           PathLocks("zipdir") \o
           (IF exists
            THEN <<Acq("archive", "w")>> \o ZipFileNewLocks
                 \o <<Mut("zipdir"), Rel("archive", "w")>>
            ELSE <<>>))

\* ZipFile::read with a fill (&mut self): get_archive, archive.write()
Locks_ZipFile_fill_buffer ==
    Called("entry", "w",
           <<Acq("zipdir", "r"), Rel("zipdir", "r"), Acq("archive", "w"),
             Mut("entry"), Rel("archive", "w")>>)

\* ZipFile::get_archive (&self): parent.read() for the clone of the Arc
Locks_ZipFile_get_archive(g) ==
    Called("entry", g, <<Acq("zipdir", "r"), Rel("zipdir", "r")>>)

\* ZipFile::size (&self): get_archive, then archive.write() for the
\* length of the statement
Locks_ZipFile_size(g) ==
    Called("entry", g,
           <<Acq("zipdir", "r"), Rel("zipdir", "r"),
             Acq("archive", "w"), Rel("archive", "w")>>)

\* ZipFile::seek (&mut self): the window is reset; for SeekFrom::End
\* get_archive and archive.write() to ask the entry's size; then
\* seek_offset is stored
Locks_ZipFile_seek(end) ==
    Called("entry", "w",
           <<Mut("entry")>> \o
           (IF end
            THEN <<Acq("zipdir", "r"), Rel("zipdir", "r"), Acq("archive", "w"),
                   Mut("entry"), Rel("archive", "w")>>
            ELSE <<Mut("entry")>>))

\* ZipDirectory::new(file): file.write() held over take_handle, and over
\* open() with its get_full_path when the file holds no handle (held);
\* then the new directory's own lock
Locks_ZipDirectory_new(held) ==
    <<Acq("file", "w")>>
    \o (IF held THEN <<>> ELSE PathLocks("file") \o <<Mut("file")>>)
    \o <<Mut("file"), Rel("file", "w")>>
    \o ConstructorLocks("new_zipdir")

\* get_full_path of any node (&self); exists, and the FileNotPresent of
\* get_child, take the same locks
Locks_get_full_path(n, g) == Called(n, g, PathLocks(n))

\* PhysicalFile::rename (&self): parent.read().unwrap().get_full_path()
Locks_PhysicalFile_rename(g) == Called("file", g, PathLocks("file"))

LockOp(op, prog) == [op |-> op, prog |-> prog, pc |-> 1]

LockOps ==
    {LockOp("get_full_path", Locks_get_full_path(n, g)) : n \in LockNodes, g \in {"r", "w"}}
    \cup {LockOp("PhysicalDirectory::get_children", Locks_PhysicalDirectory_get_children(g)) :
             g \in {"r", "w"}}
    \cup {LockOp("PhysicalDirectory::new_file", Locks_PhysicalDirectory_new_file),
          LockOp("PhysicalDirectory::new_dir", Locks_PhysicalDirectory_new_dir),
          LockOp("PhysicalFile::open", Locks_PhysicalFile_open),
          LockOp("ZipFile::fill_buffer", Locks_ZipFile_fill_buffer)}
    \cup {LockOp("PhysicalFile::rename", Locks_PhysicalFile_rename(g)) : g \in {"r", "w"}}
    \cup {LockOp("ZipFile::get_archive", Locks_ZipFile_get_archive(g)) : g \in {"r", "w"}}
    \cup {LockOp("ZipFile::size", Locks_ZipFile_size(g)) : g \in {"r", "w"}}
    \cup {LockOp("ZipFile::seek", Locks_ZipFile_seek(e)) : e \in BOOLEAN}
    \cup {LockOp("ZipDirectory::new", Locks_ZipDirectory_new(h)) : h \in BOOLEAN}
    \cup {LockOp("ZipDirectory::get_children", Locks_ZipDirectory_get_children(g)) :
             g \in {"r", "w"}}
    \cup {LockOp("ZipDirectory::scan", Locks_ZipDirectory_scan(e)) : e \in BOOLEAN}

Idle == [op |-> "idle", prog |-> <<>>, pc |-> 1]

\* The step a caller is at, if it is inside an operation
Running(t) == threads[t].pc <= Len(threads[t].prog)

StepOf(t) == threads[t].prog[threads[t].pc]

Wants(t, l, m) ==
    Running(t) /\ StepOf(t).k = "acq" /\ StepOf(t).l = l /\ StepOf(t).m = m

Holds(t, l, m) ==
    \E i \in 1..Len(locks.held[t]) : locks.held[t][i] = [l |-> l, m |-> m]

HoldsAny(t, l) == Holds(t, l, "r") \/ Holds(t, l, "w")

\* RwLock::write returns when nobody holds a guard; RwLock::read when no
\* writer holds one and, where the platform prefers writers, none waits.
\* The lock of a node a caller has just built is that caller's alone.
Grantable(t, l, m) ==
    LET sharing == IF l \in NewNodes THEN {t} ELSE Callers
    IN  IF m = "w" THEN \A u \in sharing : ~HoldsAny(u, l)
        ELSE /\ \A u \in sharing : ~Holds(u, l, "w")
             /\ locks.policy = "writers" => \A u \in sharing \ {t} : ~Wants(u, l, "w")

\* Dropping a guard: the last one of that lock and mode the caller took
RemoveLast(held, g) ==
    LET i == CHOOSE j \in 1..Len(held) :
                 held[j] = g /\ \A k \in (j + 1)..Len(held) : held[k] # g
    IN  SubSeq(held, 1, i - 1) \o SubSeq(held, i + 1, Len(held))

InitLock ==
    /\ threads = [t \in Callers |-> Idle]
    /\ locks \in {[policy |-> p, held |-> [t \in Callers |-> <<>>]] :
                     p \in {"readers", "writers"}}
    /\ lock = 0 /\ reader = None /\ archive = <<>>
    /\ last = [op |-> "new", arg |-> 0, tag |-> "Ok", val |-> 0, data |-> <<>>]
    /\ f = PhysicalFile_new("f.bin", 0, 0) /\ disk = None /\ rt = RtOff /\ sk = SkOff
    /\ faults = 0
    /\ nodes = <<>> /\ fsys = <<>> /\ listings = <<>>

LockFrame ==
    UNCHANGED <<f, disk, archive, last, rt, sk, faults, nodes, fsys, listings,
                lock, reader>>

\* A caller starts an operation
LockBegin(t) ==
    /\ threads[t] = Idle
    /\ \E o \in LockOps : threads' = [threads EXCEPT ![t] = o]
    /\ UNCHANGED locks /\ LockFrame

\* read() / write() on a lock returns the guard
LockAcquire(t) ==
    /\ Running(t) /\ StepOf(t).k = "acq"
    /\ Grantable(t, StepOf(t).l, StepOf(t).m)
    /\ locks' = [locks EXCEPT !.held[t] = Append(@, [l |-> StepOf(t).l, m |-> StepOf(t).m])]
    /\ threads' = [threads EXCEPT ![t].pc = @ + 1]
    /\ LockFrame

\* A guard goes out of scope
LockRelease(t) ==
    /\ Running(t) /\ StepOf(t).k = "rel"
    /\ locks' = [locks EXCEPT
          !.held[t] = RemoveLast(@, [l |-> StepOf(t).l, m |-> StepOf(t).m])]
    /\ threads' = [threads EXCEPT ![t].pc = @ + 1]
    /\ LockFrame

\* The operation writes the node's state
LockMutate(t) ==
    /\ Running(t) /\ StepOf(t).k = "mut"
    /\ threads' = [threads EXCEPT ![t].pc = @ + 1]
    /\ UNCHANGED locks /\ LockFrame

\* The operation returns
LockReturn(t) ==
    /\ threads[t] # Idle /\ ~Running(t)
    /\ threads' = [threads EXCEPT ![t] = Idle]
    /\ UNCHANGED locks /\ LockFrame

NextLock ==
    \E t \in Callers :
        \/ LockBegin(t) \/ LockAcquire(t) \/ LockRelease(t) \/ LockMutate(t)
        \/ LockReturn(t)

SpecLock == InitLock /\ [][NextLock]_vars

\* C11 as stated: no caller acquires the lock of a parent node, or of the
\* archive, while it already holds the lock of the child.
C11_ParentBeforeChild ==
    \A t \in Callers :
        \A i, j \in 1..Len(locks.held[t]) :
            i < j => ~Above(locks.held[t][j].l, locks.held[t][i].l)

LockIds == LockNodes \cup NewNodes \cup {"archive"}

\* C12: a caller writes a node's state only while it holds the node's
\* write guard.
C12_MutationUnderWrite ==
    \A t \in Callers :
        (Running(t) /\ StepOf(t).k = "mut") => Holds(t, StepOf(t).l, "w")

\* Caller t asks for a lock it already holds in a conflicting mode: a
\* guard of either mode while it holds the write guard, the write guard
\* while it holds a read guard, or a second read guard while another
\* caller's write request is queued ahead of readers.
Reacquires(t) ==
    \E l \in LockIds, m \in {"r", "w"} :
        /\ Wants(t, l, m)
        /\ \/ Holds(t, l, "w")
           \/ m = "w" /\ Holds(t, l, "r")
           \/ /\ m = "r" /\ Holds(t, l, "r") /\ locks.policy = "writers"
              /\ \E u \in Callers \ {t} : Wants(u, l, "w")

\* C19: inside ZipDirectory::scan and ZipDirectory::get_children, the
\* ZipFile::new they call included, a caller never asks for a lock it
\* already holds in a conflicting mode, whether or not another caller
\* waits for the archive, so every such call terminates.
C19_ZipCallsTerminate ==
    \A t \in Callers :
        threads[t].op \in {"ZipDirectory::scan", "ZipDirectory::get_children"}
        => ~Reacquires(t)

\* C13: after PhysicalFile::rename(new_name) returns Ok the node's name is
\* new_name, its full path is the parent's joined with new_name, and
\* exists() is true.
C13_RenameCoherent ==
    \A id \in Files :
        (/\ last.op = "rename" /\ last.tag = "Ok" /\ last.arg[1] = id
         /\ nodes[id].kind = "PhysicalFile")
        => /\ nodes[id].name = last.arg[2]
           /\ Node_get_full_path(nodes, id)
                 = Join(Node_get_full_path(nodes, nodes[id].parent), last.arg[2])
           /\ PhysicalFile_exists(nodes, id, fsys)

\* C17: after ZipDirectory::scan returns Ok on a directory built from an
\* archive file, scanned is true and the cache holds one child per file
\* entry of the archive, keyed by the entry's name and carrying its index,
\* and none for directory entries; has_child is then true of every file
\* entry.
C17_ZipScanFillsCache ==
    \A d \in Dirs :
        (/\ last.op = "scan" /\ last.tag = "Ok" /\ last.arg[1] = d
         /\ nodes[d].kind = "ZipDirectory"
         /\ PathIsFile(fsys, Node_get_full_path(nodes, d)))
        => /\ nodes[d].scanned
           /\ DOMAIN nodes[d].children
                 = {archive[i].name : i \in {j \in 1..Len(archive) : EntryIsFile(archive[j])}}
           /\ \A i \in 1..Len(archive) :
                 EntryIsFile(archive[i]) =>
                     /\ Directory_has_child(nodes, d, archive[i].name).val
                     /\ nodes[nodes[d].children[archive[i].name]].file_index = i

\* The node was handed out by new_file: scan builds its files with buffer
\* size 0, the callers of new_file here ask for a positive one.
MadeByNewFile(ns, id) == ns[id].kind = "PhysicalFile" /\ ns[id].cap > 0

\* C22: a node that new_file on a PhysicalDirectory handed out stays the
\* node get_child returns under its name across later get_children / scan
\* calls (until new_file is called for the name again); a first scan that
\* finds the name in the backend does not put a fresh node in its place.
C22_StableIdentity ==
    \A h \in Files :
        (MadeByNewFile(nodes, h) /\ nodes[nodes[h].parent].kind = "PhysicalDirectory")
        => LET d == nodes[h].parent
               got == Directory_get_child(nodes, d, nodes[h].name)
           IN  /\ got.tag = "Ok"
               /\ got.val = h \/ MadeByNewFile(nodes, got.val)

(***************************************************************************)
(* Further claims on the File contract (SpecFile).                         *)
(***************************************************************************)
\* C14: on a File node of either backend a successful seek empties the
\* filled region: buf_filled = 0 and cursor = 0 afterwards.
C14_SeekEmptiesBuffer ==
    (last.op = "seek" /\ last.tag = "Ok") => (f.buf_filled = 0 /\ f.cursor = 0)

\* C15: PhysicalFile::write(input) returns Ok(n) with n = min(buffer
\* length, |input|), copies input[0..n) into buffer[0..n) and leaves the
\* rest of the buffer, sets buf_filled = 0 and cursor = 0, and touches
\* neither the OS handle nor the backend file.
C15_WriteIntoBuffer ==
    [][(f.kind = "PhysicalFile" /\ last'.op = "write") =>
          LET input == last'.arg
              n == IF Len(f.buffer) <= Len(input) THEN Len(f.buffer) ELSE Len(input)
          IN  /\ last'.tag = "Ok" /\ last'.val = n
              /\ Len(f'.buffer) = Len(f.buffer)
              /\ \A i \in 1..Len(f.buffer) :
                    f'.buffer[i] = IF i <= n THEN input[i] ELSE f.buffer[i]
              /\ f'.buf_filled = 0 /\ f'.cursor = 0
              /\ f'.file = f.file /\ disk' = disk]_vars

C15_Witness ==
    /\ f.kind = "PhysicalFile" /\ last.op = "write"
    /\ last.val = 1 /\ Len(last.arg) = 2 /\ Len(f.buffer) = 1
    /\ IsSome(f.file)

\* C16: on a physical file built with buffer size 0, the first read sizes
\* the buffer to the file's length, and reading until read returns 0
\* yields exactly the file's bytes, whether or not open() was called
\* before the first read.
C16_ZeroBufferReadsAll ==
    (/\ f.kind = "PhysicalFile" /\ sk.k = 0 /\ IsSome(disk)
     /\ last.op = "read" /\ last.tag = "Ok") =>
        /\ Len(f.buffer) = Len(Unwrap(disk))
        /\ (last.arg > 0 /\ last.val = 0) => sk.got = Unwrap(disk)

\* C18: no PhysicalFile operation aborts, in any state of the file.
C18_PhysicalNeverAborts ==
    f.kind = "PhysicalFile" => last.tag # "Panic"

\* C20: a ZipFile's seek_offset is non-negative in every reachable state.
C20_SeekOffsetNonNegative ==
    f.kind = "ZipFile" => f.seek_offset >= 0

\* C21: on an archive file seek(Current(d)) is relative to the logical read
\* position: after a seek(Start(k)) and reads that consumed c - k bytes,
\* fewer than the last fill fetched, seek(Current(0)) returns c and leaves
\* the file so that the next read is filled from the entry's index c.
C21_CurrentIsLogical ==
    [][(/\ f.kind = "ZipFile" /\ sk.k >= 0 /\ f.cursor < f.buf_filled
        /\ last'.op = "seek" /\ last'.arg = SeekFrom("Current", 0))
       => LET c == sk.k + Len(sk.got)
          IN  /\ last'.tag = "Ok" /\ last'.val = c
              /\ f'.seek_offset = c /\ f'.cursor >= f'.buf_filled]_vars

\* C23: on a file of either backend buf_filled never exceeds the buffer's
\* current length, set_buffer_size below buf_filled included, so read and
\* fill_buf never slice the buffer past its length.
C23_FilledWithinBuffer ==
    /\ f.buf_filled <= Len(f.buffer)
    /\ last.op \in {"read", "fill_buf"} => last.tag # "Panic" \/ last.val # "slice index"

====
